---- MODULE Spec2Model ----
(***************************************************************************)
(* Model of the interactive term-classification engine of slr-kit:         *)
(* the term store of words.py (Label, Word, WordList) and the session      *)
(* loop of fawoc.py (curses_main, classify, do_postpone, undo, main).      *)
(*                                                                         *)
(* A Python str is modelled as a tuple of one-character strings, so that   *)
(* str.split() and the token comparison of _word_contains are computed,    *)
(* not assumed.  The empty str '' is the empty tuple.                      *)
(***************************************************************************)
EXTENDS Integers, Sequences, FiniteSets, TLC

VARIABLES
    items,                \* terms.items: the Words of the store, in file order
    to_classify,          \* the queue: the strings of the terms to show
    sort_word_key,        \* the anchor of the group
    related_items_count,  \* the terms left in the group
    review,               \* the label under review (--input)
    last_reviews,         \* the label name last_review.json has for the file
    dry_run,              \* --dry-run
    no_auto_save,         \* --no-auto-save
    disk,                 \* the rows of the data file
    status,               \* "loaded", "running", "crashed" or "quit"
    last_key,             \* the key the loop read last ("start" at the start)
    max_assigned,         \* the highest order classify or postpone assigned
    prev,                 \* the session and the key before the last step
    call                  \* the last direct call of a function of words.py

vars == <<items, to_classify, sort_word_key, related_items_count,
          review, last_reviews, dry_run, no_auto_save, disk, status,
          last_key, max_assigned, prev, call>>

\* ------------------------------------------------------------------------
\* Bounds of the model
\* ------------------------------------------------------------------------

\* classify and postpone are not taken once the store holds this order
MaxOrder == 3

\* undo is not taken once the queue holds this many entries
MaxQueue == 3

\* ------------------------------------------------------------------------
\* Python values
\* ------------------------------------------------------------------------

\* the str ''
EmptyStr == <<>>

\* Python's None where a term (or a str) is expected; it equals no str
NoneValue == <<"None">>

\* str.split() with no argument: the maximal runs of non-blank characters
RECURSIVE SplitFrom(_, _, _)
SplitFrom(s, i, cur) ==
    IF i > Len(s)
    THEN IF cur = <<>> THEN <<>> ELSE <<cur>>
    ELSE IF s[i] = " "
         THEN IF cur = <<>>
              THEN SplitFrom(s, i + 1, <<>>)
              ELSE <<cur>> \o SplitFrom(s, i + 1, <<>>)
         ELSE SplitFrom(s, i + 1, Append(cur, s[i]))

Split(s) == SplitFrom(s, 1, <<>>)

\* ------------------------------------------------------------------------
\* words.py: Label
\* ------------------------------------------------------------------------

Label == {"NONE", "KEYWORD", "NOISE", "RELEVANT", "NOT_RELEVANT", "POSTPONED"}

\* the members in definition order, the order `for label in Label` visits
LabelMembers == <<"NONE", "KEYWORD", "NOISE", "RELEVANT", "NOT_RELEVANT",
                  "POSTPONED">>

LabelName(l) ==
    CASE l = "NONE" -> ""
      [] l = "KEYWORD" -> "keyword"
      [] l = "NOISE" -> "noise"
      [] l = "RELEVANT" -> "relevant"
      [] l = "NOT_RELEVANT" -> "not-relevant"
      [] l = "POSTPONED" -> "postponed"

LabelKey(l) ==
    CASE l = "NONE" -> ""
      [] l = "KEYWORD" -> "k"
      [] l = "NOISE" -> "n"
      [] l = "RELEVANT" -> "r"
      [] l = "NOT_RELEVANT" -> "x"
      [] l = "POSTPONED" -> "p"

\* the result of a lookup that raised ValueError
ValueError == "ValueError"

RECURSIVE FirstLabelFrom(_, _, _)
FirstLabelFrom(i, attr, value) ==
    IF i > Len(LabelMembers)
    THEN ValueError
    ELSE IF (IF attr = "key" THEN LabelKey(LabelMembers[i])
                             ELSE LabelName(LabelMembers[i])) = value
         THEN LabelMembers[i]
         ELSE FirstLabelFrom(i + 1, attr, value)

\* get_from_key returning Label.NONE where it raises ValueError
get_from_key_or_none(key) ==
    IF FirstLabelFrom(1, "key", key) = ValueError
    THEN "NONE"
    ELSE FirstLabelFrom(1, "key", key)

get_from_key(key) == FirstLabelFrom(1, "key", key)

get_from_name(name) == FirstLabelFrom(1, "name", name)

\* ------------------------------------------------------------------------
\* words.py: Word and WordList
\* ------------------------------------------------------------------------

\* a Word; index and count are carried through unchanged and left out
Word(w, g, o, r) == [word |-> w, group |-> g, order |-> o, related |-> r]

is_grouped(w) == w.group # "NONE"

RECURSIVE MaxOrderFrom(_, _)
MaxOrderFrom(its, i) ==
    IF i = Len(its)
    THEN its[i].order
    ELSE LET rest == MaxOrderFrom(its, i + 1)
         IN  IF its[i].order >= rest THEN its[i].order ELSE rest

RECURSIVE MinOrderFrom(_, _)
MinOrderFrom(its, i) ==
    IF i = Len(its)
    THEN its[i].order
    ELSE LET rest == MinOrderFrom(its, i + 1)
         IN  IF its[i].order <= rest THEN its[i].order ELSE rest

\* get_last_classified_order with min in the place of max
get_last_classified_order_min(its) ==
    LET order == MinOrderFrom(its, 1)
    IN  IF order < 0 THEN -1 ELSE order

\* max(w.order for w in self.items), then clamped to -1  (items not empty)
get_last_classified_order(its) ==
    LET order == MaxOrderFrom(its, 1)
    IN  IF order < 0 THEN -1 ELSE order

\* index of the first Word with w.order == order, 0 when the loop ends
RECURSIVE FirstWithOrder(_, _, _)
FirstWithOrder(its, i, order) ==
    IF i > Len(its) THEN 0
    ELSE IF its[i].order = order THEN i ELSE FirstWithOrder(its, i + 1, order)

\* get_last_classified_word returns a Word of items or None: the Word is
\* given by its position in items, and None by 0
get_last_classified_word(its) ==
    FirstWithOrder(its, 1, get_last_classified_order(its))

\* index of the first Word with w.word == word, 0 when the loop ends
RECURSIVE FirstWithWord(_, _, _)
FirstWithWord(its, i, word) ==
    IF i > Len(its) THEN 0
    ELSE IF its[i].word = word THEN i ELSE FirstWithWord(its, i + 1, word)

\* mark_word marking the first Word whose string is `word` and every Word
\* after it
mark_word_to_the_end(its, word, marker, order, related) ==
    LET i == FirstWithWord(its, 1, word)
    IN  IF i = 0
        THEN its
        ELSE [j \in 1..Len(its) |->
                 IF j >= i THEN Word(its[j].word, marker, order, related)
                 ELSE its[j]]

\* the first Word whose string is `word` gets marker, order and related;
\* a string that is in no Word changes nothing and raises nothing
mark_word(its, word, marker, order, related) ==
    LET i == FirstWithWord(its, 1, word)
    IN  IF i = 0
        THEN its
        ELSE [its EXCEPT ![i] = Word(its[i].word, marker, order, related)]

\* _word_contains as `substring in string`: a match anywhere in the str
word_contains_anywhere(string, substring) ==
    \E a \in 1..(Len(string) + 1) :
        /\ a + Len(substring) - 1 <= Len(string)
        /\ SubSeq(string, a, a + Len(substring) - 1) = substring

\* any([substring == word for word in string.split()])
word_contains(string, substring) ==
    \E i \in 1..Len(Split(string)) : Split(string)[i] = substring

\* `w.order is not None`: order is an int on every path (from_csv stores -1
\* for the empty field, mark_word stores the int it is given), never None
order_is_not_None(order) == order \in Int

RECURSIVE RelatedFrom(_, _, _, _)
RelatedFrom(its, i, key, label) ==
    IF i > Len(its)
    THEN [containing |-> <<>>, not_containing |-> <<>>]
    ELSE LET rest == RelatedFrom(its, i + 1, key, label)
             w == its[i]
         IN  IF w.group # label \/ order_is_not_None(w.order)
             THEN rest
             ELSE IF word_contains(w.word, key)
                  THEN [rest EXCEPT !.containing = <<w.word>> \o @]
                  ELSE [rest EXCEPT !.not_containing = <<w.word>> \o @]

return_related_items(its, key, label) == RelatedFrom(its, 1, key, label)

count_classified(its) == Cardinality({i \in 1..Len(its) : is_grouped(its[i])})

count_by_class(its, cls) == Cardinality({i \in 1..Len(its) : its[i].group = cls})

\* TermList.get_from_label(label, order_set): the terms carrying `label`, in
\* load order, sorted by order (stably) when order_set is given
RECURSIVE WithLabelFrom(_, _, _)
WithLabelFrom(its, i, label) ==
    IF i > Len(its) THEN <<>>
    ELSE IF its[i].group = label
         THEN <<its[i]>> \o WithLabelFrom(its, i + 1, label)
         ELSE WithLabelFrom(its, i + 1, label)

RECURSIVE InsertByOrder(_, _)
InsertByOrder(sorted, w) ==
    IF sorted = <<>> THEN <<w>>
    ELSE IF w.order < Head(sorted).order
         THEN <<w>> \o sorted
         ELSE <<Head(sorted)>> \o InsertByOrder(Tail(sorted), w)

RECURSIVE SortByOrder(_)
SortByOrder(ws) ==
    IF ws = <<>> THEN <<>>
    ELSE InsertByOrder(SortByOrder(SubSeq(ws, 1, Len(ws) - 1)), ws[Len(ws)])

\* TermList.get_strings()
get_strings(ws) == [i \in 1..Len(ws) |-> ws[i].word]

get_from_label(its, label, order_set) ==
    IF order_set
    THEN get_strings(SortByOrder(WithLabelFrom(its, 1, label)))
    ELSE get_strings(WithLabelFrom(its, 1, label))

\* TermList.get_not_classified(): the terms that carry no label
get_not_classified(its) == get_strings(WithLabelFrom(its, 1, "NONE"))

\* ------------------------------------------------------------------------
\* words.py: to_csv and from_csv.  A row is what the csv file holds for a
\* Word: four str fields.
\* ------------------------------------------------------------------------

Digits == <<"0", "1", "2", "3", "4", "5", "6", "7", "8", "9">>

\* str(n) for an int n >= 0
RECURSIVE IntToStr(_)
IntToStr(n) ==
    IF n < 10 THEN <<Digits[n + 1]>>
    ELSE IntToStr(n \div 10) \o <<Digits[(n % 10) + 1]>>

DigitValue(c) == CHOOSE d \in 0..9 : Digits[d + 1] = c

\* int(s) for a str of digits with an optional leading minus sign
RECURSIVE DigitsToInt(_, _)
DigitsToInt(s, acc) ==
    IF s = <<>> THEN acc
    ELSE DigitsToInt(Tail(s), 10 * acc + DigitValue(Head(s)))

StrToInt(s) ==
    IF Head(s) = "-" THEN 0 - DigitsToInt(Tail(s), 0) ELSE DigitsToInt(s, 0)

\* to_csv writing the order only when it is above 0
to_csv_row_above_zero(w) ==
    [keyword |-> w.word,
     group   |-> LabelName(w.group),
     order   |-> IF w.order > 0 THEN IntToStr(w.order) ELSE EmptyStr,
     related |-> w.related]

to_csv_row(w) ==
    [keyword |-> w.word,
     group   |-> LabelName(w.group),
     order   |-> IF w.order >= 0 THEN IntToStr(w.order) ELSE EmptyStr,
     related |-> w.related]

\* the rows to_csv writes for the items
to_csv(its) == [i \in 1..Len(its) |-> to_csv_row(its[i])]

\* from_csv looking the group up by its name only, without the fallback on
\* the key
from_csv_row_name_only(row) ==
    LET order == IF row.order = EmptyStr THEN -1 ELSE StrToInt(row.order)
    IN  Word(row.keyword, get_from_name(row.group), order, row.related)

from_csv_row(row) ==
    LET order == IF row.order = EmptyStr THEN -1 ELSE StrToInt(row.order)
        byname == get_from_name(row.group)
        group == IF byname = ValueError THEN get_from_key(row.group)
                 ELSE byname
    IN  Word(row.keyword, group, order, row.related)

\* the items from_csv builds from the rows of a file
from_csv(rows) == [i \in 1..Len(rows) |-> from_csv_row(rows[i])]

\* what leaves from_csv: the ValueError of get_from_key, which from_csv does
\* not catch, when a row's group is neither a name nor a key of a Label
from_csv_error(rows) ==
    IF \E i \in 1..Len(rows) : from_csv_row(rows[i]).group = ValueError
    THEN ValueError
    ELSE "none"

\* the items of a store that held its, after from_csv on the rows of a file:
\* self.items is assigned after the loop, so a raise leaves it as it was
from_csv_into(its, rows) ==
    IF from_csv_error(rows) # "none" THEN its ELSE from_csv(rows)

\* ------------------------------------------------------------------------
\* fawoc.py: classify, do_postpone, undo
\* ------------------------------------------------------------------------

\* what the three handlers return, with the store they leave
Result(its, queue, count, key) ==
    [items |-> its, to_classify |-> queue,
     related_items_count |-> count, sort_word_key |-> key]

\* classify giving the order of the last classified term, without the + 1
classify_same_order(label, its, rev, evaluated_term, key, count) ==
    LET its1 == mark_word(its, evaluated_term, label,
                          get_last_classified_order(its), key)
        key1 == IF count <= 0 THEN evaluated_term ELSE key
        part == return_related_items(its1, key1, rev)
        count1 == IF count <= 0 THEN Len(part.containing) + 1 ELSE count
    IN  Result(its1, part.containing \o part.not_containing, count1 - 1, key1)

\* classify without the final related_items_count -= 1
classify_no_decrement(label, its, rev, evaluated_term, key, count) ==
    LET its1 == mark_word(its, evaluated_term, label,
                          get_last_classified_order(its) + 1, key)
        key1 == IF count <= 0 THEN evaluated_term ELSE key
        part == return_related_items(its1, key1, rev)
        count1 == IF count <= 0 THEN Len(part.containing) + 1 ELSE count
    IN  Result(its1, part.containing \o part.not_containing, count1, key1)

\* classify taking the classified term as the anchor whatever the count
classify_always_seeds(label, its, rev, evaluated_term, key, count) ==
    LET its1 == mark_word(its, evaluated_term, label,
                          get_last_classified_order(its) + 1, key)
        key1 == evaluated_term
        part == return_related_items(its1, key1, rev)
        count1 == Len(part.containing) + 1
    IN  Result(its1, part.containing \o part.not_containing, count1 - 1, key1)

classify(label, its, rev, evaluated_term, key, count) ==
    LET its1 == mark_word(its, evaluated_term, label,
                          get_last_classified_order(its) + 1, key)
        key1 == IF count <= 0 THEN evaluated_term ELSE key
        part == return_related_items(its1, key1, rev)
        count1 == IF count <= 0 THEN Len(part.containing) + 1 ELSE count
    IN  Result(its1, part.containing \o part.not_containing, count1 - 1, key1)

do_classify(its, word, label, rev, sort_key, related_count) ==
    classify(label, its, rev, word, sort_key, related_count)

\* do_postpone returns no sort key: the caller keeps its own
do_postpone(its, word, rev, sort_key, related_count) ==
    LET its1 == mark_word(its, word, "POSTPONED",
                          get_last_classified_order(its) + 1, sort_key)
        count1 == related_count - 1
        part == return_related_items(its1, sort_key, rev)
    IN  Result(its1,
               IF count1 > 0 THEN part.containing \o part.not_containing
               ELSE get_from_label(its1, rev, FALSE),
               count1, sort_key)

\* undo putting the term back at the end of the queue
undo_related_at_end(its, queue, rev, key, count, last) ==
    LET last_word == its[last]
        related == last_word.related
        its1 == mark_word(its, last_word.word, rev, -1, EmptyStr)
        part == return_related_items(its1, related, rev)
    IN  IF related = key
        THEN Result(its1, queue \o <<last_word.word>>, count + 1, key)
        ELSE Result(its1, part.containing \o part.not_containing,
                    Len(part.containing), related)

\* undo giving the term back the label NONE instead of the review label
undo_related_unlabels(its, queue, rev, key, count, last) ==
    LET last_word == its[last]
        related == last_word.related
        its1 == mark_word(its, last_word.word, "NONE", -1, EmptyStr)
        part == return_related_items(its1, related, rev)
    IN  IF related = key
        THEN Result(its1, <<last_word.word>> \o queue, count + 1, key)
        ELSE Result(its1, part.containing \o part.not_containing,
                    Len(part.containing), related)

\* undo leaving the term the label it has
undo_related_keeps_label(its, queue, rev, key, count, last) ==
    LET last_word == its[last]
        related == last_word.related
        its1 == mark_word(its, last_word.word, last_word.group, -1, EmptyStr)
        part == return_related_items(its1, related, rev)
    IN  IF related = key
        THEN Result(its1, <<last_word.word>> \o queue, count + 1, key)
        ELSE Result(its1, part.containing \o part.not_containing,
                    Len(part.containing), related)

\* undo from the un-marking of last_word, the Word at the index last, to the
\* end of its handling of the related terms
undo_related(its, queue, rev, key, count, last) ==
    LET last_word == its[last]
        related == last_word.related
        its1 == mark_word(its, last_word.word, rev, -1, EmptyStr)
        part == return_related_items(its1, related, rev)
    IN  IF related = key
        THEN Result(its1, <<last_word.word>> \o queue, count + 1, key)
        ELSE Result(its1, part.containing \o part.not_containing,
                    Len(part.containing), related)

\* undo without its final correction of related_items_count
undo_without_correction(its, queue, rev, key, count) ==
    LET last == get_last_classified_word(its)
    IN  IF last = 0
        THEN Result(its, queue, count, key)
        ELSE undo_related(its, queue, rev, key, count, last)

undo(its, queue, rev, key, count) ==
    LET last == get_last_classified_word(its)
        r == undo_related(its, queue, rev, key, count, last)
    IN  IF last = 0
        THEN Result(its, queue, count, key)
        ELSE IF r.sort_word_key = EmptyStr
             THEN [r EXCEPT !.related_items_count = 0]
             ELSE r

\* ------------------------------------------------------------------------
\* fawoc.py: main and curses_main
\* ------------------------------------------------------------------------

\* last_reviews.get(datafile): the label name recorded for the data file,
\* or Absent when the file has no record
Absent == "<absent>"

classifing_keys == {LabelKey("KEYWORD"), LabelKey("NOT_RELEVANT"),
                    LabelKey("NOISE"), LabelKey("RELEVANT")}

\* the session as the loop sees it
Session(its, queue, key, count, dsk, stat, lastrev) ==
    [items |-> its, to_classify |-> queue, sort_word_key |-> key,
     related_items_count |-> count, disk |-> dsk, status |-> stat,
     last_reviews |-> lastrev]

\* every Word with order -1 and related ''
reset_order_related(its) ==
    [i \in 1..Len(its) |-> Word(its[i].word, its[i].group, -1, EmptyStr)]

\* main, from the check of last_review.json to the call of curses_main, and
\* curses_main up to its loop
session_start(its, rev, lastrev, dsk) ==
    LET main_reset == rev = "NONE" /\ lastrev # Absent
        lastrev1 == IF main_reset THEN Absent ELSE lastrev
        its1 == IF main_reset THEN reset_order_related(its) ELSE its
        reset == rev # "NONE"
                 /\ LabelName(rev) # (IF lastrev1 = Absent THEN ""
                                      ELSE lastrev1)
        its2 == IF reset THEN reset_order_related(its1) ELSE its1
        last == get_last_classified_word(its2)
        key == IF its2[last].related = EmptyStr THEN its2[last].word
               ELSE its2[last].related
        part == return_related_items(its2, key, rev)
    IN  IF last = 0
        THEN Session(its2,
                     IF rev # "NONE" THEN get_from_label(its2, rev, TRUE)
                     ELSE get_not_classified(its2),
                     EmptyStr, 0, dsk, "running", lastrev1)
        ELSE Session(its2, part.containing \o part.not_containing,
                     key, Len(part.containing), dsk, "running", lastrev1)

\* the auto-save that ends an iteration of the loop
auto_save(st, dry, noauto) ==
    IF ~dry /\ ~noauto THEN [st EXCEPT !.disk = to_csv(st.items)] ELSE st

\* main after curses_main returned
main_end(st, rev, dry) ==
    LET st1 == IF rev # "NONE"
               THEN [st EXCEPT !.last_reviews = LabelName(rev)]
               ELSE st
    IN  [(IF ~dry THEN [st1 EXCEPT !.disk = to_csv(st1.items)] ELSE st1)
           EXCEPT !.status = "quit"]

\* one iteration of the loop of curses_main on the key c
loop_iteration(st, c, rev, dry, noauto) ==
    LET evaluated_word == IF Len(st.to_classify) <= 0 THEN NoneValue
                          ELSE st.to_classify[1]
        key0 == IF st.related_items_count <= 0 THEN EmptyStr
                ELSE st.sort_word_key
        st0 == [st EXCEPT !.sort_word_key = key0]
        label == get_from_key(c)
        \* word.string on None raises AttributeError, which nothing catches
        crashed == [st0 EXCEPT !.status = "crashed"]
        Apply(r) == [st0 EXCEPT !.items = r.items,
                                !.to_classify = r.to_classify,
                                !.related_items_count = r.related_items_count,
                                !.sort_word_key = r.sort_word_key]
    IN  IF c \notin {"w", "q", "u"} /\ evaluated_word = EmptyStr
        THEN st0
        ELSE IF c \in classifing_keys
        THEN IF evaluated_word = NoneValue
             THEN crashed
             ELSE auto_save(Apply(do_classify(st0.items, evaluated_word,
                                label, rev, key0, st0.related_items_count)),
                            dry, noauto)
        ELSE IF c = "p"
        THEN IF evaluated_word = NoneValue
             THEN crashed
             ELSE auto_save(Apply(do_postpone(st0.items, evaluated_word, rev,
                                key0, st0.related_items_count)),
                            dry, noauto)
        ELSE IF c = "w"
        THEN auto_save([st0 EXCEPT !.disk = to_csv(st0.items)], dry, noauto)
        ELSE IF c = "u"
        THEN auto_save(Apply(undo(st0.items, st0.to_classify, rev, key0,
                                  st0.related_items_count)),
                       dry, noauto)
        ELSE IF c = "q"
        THEN main_end(st0, rev, dry)
        ELSE st0

\* the rows of the data file when a to_csv of its raised OSError after it had
\* written k rows: open(outfile, mode='w') has emptied the file, and the rows
\* go to the file itself.  With k = -1 it is open that raised, and the file
\* is as it was.
to_csv_fails(dsk, its, k) ==
    IF k < 0 THEN dsk ELSE SubSeq(to_csv(its), 1, k)

\* the points where a to_csv of its can raise
FailPoints(its) == -1..(Len(its) - 1)

\* the iteration of the loop on the key c reaches a call of to_csv: the
\* write of 'w', the auto-save after a classify, postpone or undo that
\* returned, or the save of main after 'q'
writes(st, c, rev, dry, noauto) ==
    \/ c = "w"
    \/ c = "q" /\ ~dry
    \/ /\ c \in classifing_keys \cup {"p", "u"}
       /\ ~dry /\ ~noauto
       /\ loop_iteration(st, c, rev, TRUE, TRUE).status = "running"

\* one iteration of the loop on the key c when the to_csv it reaches raises
\* at the point k: no try statement is around the calls, so the OSError ends
\* curses_main and main
loop_iteration_write_fails(st, c, rev, dry, noauto, k) ==
    LET r == loop_iteration(st, c, rev, TRUE, TRUE)
    IN  [r EXCEPT !.disk = to_csv_fails(st.disk, r.items, k),
                  !.status = "crashed"]

\* ------------------------------------------------------------------------
\* The data files the sessions are run on
\* ------------------------------------------------------------------------

\* 'neural networks'
neural_networks ==
    <<"n", "e", "u", "r", "a", "l", " ",
    "n", "e", "t", "w", "o", "r", "k", "s">>

\* 'deep learning'
deep_learning ==
    <<"d", "e", "e", "p", " ", "l", "e", "a", "r", "n", "i", "n", "g">>

\* 'networks topology'
networks_topology ==
    <<"n", "e", "t", "w", "o", "r", "k", "s", " ", "t", "o", "p", "o", "l", "o", "g", "y">>

\* 'pipeline'
pipeline ==
    <<"p", "i", "p", "e", "l", "i", "n", "e">>

\* 'pipe'
pipe ==
    <<"p", "i", "p", "e">>

\* 'data science pipeline'
data_science_pipeline ==
    <<"d", "a", "t", "a", " ", "s", "c", "i", "e", "n", "c", "e", " ", "p", "i", "p", "e", "l", "i", "n", "e">>

\* 'unknown term'
unknown_term ==
    <<"u", "n", "k", "n", "o", "w", "n", " ", "t", "e", "r", "m">>

\* the term strings of a data file, in file order
Vocabularies ==
    {<<neural_networks, deep_learning, networks_topology>>,
     <<pipeline, pipe, data_science_pipeline>>}

\* the labels reviewed in the sessions
ReviewLabels == {"NONE", "KEYWORD", "POSTPONED"}

\* the labels the three terms of a data file carry: a fresh file, and files
\* that earlier sessions labelled
LabelPatterns ==
    {<<"NONE", "NONE", "NONE">>,
     <<"KEYWORD", "NONE", "POSTPONED">>,
     <<"POSTPONED", "POSTPONED", "NONE">>,
     <<"KEYWORD", "KEYWORD", "KEYWORD">>}

\* the orders the three terms carry: none (a fresh file, or a file whose
\* orders a review reset), or the orders 0.. of the terms classified last
OrderPatterns ==
    {<<-1, -1, -1>>, <<0, -1, -1>>, <<-1, 0, -1>>, <<1, -1, 0>>}

\* the store with the terms of voc, the labels lab and the orders ord; the
\* term of order 0 seeded its group and has no anchor, a later one has the
\* seed as its anchor if anchored, and no anchor otherwise; a term without
\* an order has no anchor
StoreOf(voc, lab, ord, anchored) ==
    LET Seed == CHOOSE i \in 1..Len(voc) : ord[i] = 0
    IN  [i \in 1..Len(voc) |->
            Word(voc[i], lab[i], ord[i],
                 IF ord[i] >= 1 /\ anchored THEN voc[Seed] ELSE EmptyStr)]

\* the stores earlier sessions can have written for a vocabulary: a term
\* with an order has a label
StoresOf(voc) ==
    {StoreOf(voc, p[1], p[2], p[3]) :
        p \in {q \in LabelPatterns \X OrderPatterns \X BOOLEAN :
                  \A i \in 1..Len(voc) : q[2][i] >= 0 => q[1][i] # "NONE"}}

InitialFiles == {to_csv(its) : its \in UNION {StoresOf(voc) : voc \in Vocabularies}}

\* what last_review.json records for the data file
RecordedReviews == {Absent, LabelName("KEYWORD")}

\* the command lines: <<--dry-run, --no-auto-save>>
Modes == {<<FALSE, FALSE>>, <<TRUE, FALSE>>, <<FALSE, TRUE>>}

\* ------------------------------------------------------------------------
\* The state machine
\* ------------------------------------------------------------------------

\* the session the variables hold
Cur == Session(items, to_classify, sort_word_key, related_items_count, disk,
               status, last_reviews)

\* the session the variables hold, with the key that led to it
Snapshot == [session |-> Cur, key |-> last_key, max_assigned |-> max_assigned]

\* no function was called directly
NoCall == [fn |-> "none"]

Becomes(st) ==
    /\ prev' = Snapshot
    /\ items' = st.items
    /\ to_classify' = st.to_classify
    /\ sort_word_key' = st.sort_word_key
    /\ related_items_count' = st.related_items_count
    /\ disk' = st.disk
    /\ status' = st.status
    /\ last_reviews' = st.last_reviews

\* main up to curses_main: the arguments are parsed and the file is loaded
Init ==
    /\ disk \in InitialFiles
    /\ items = from_csv(disk)
    /\ review \in ReviewLabels
    /\ last_reviews \in RecordedReviews
    /\ \E m \in Modes : dry_run = m[1] /\ no_auto_save = m[2]
    /\ to_classify = <<>>
    /\ sort_word_key = EmptyStr
    /\ related_items_count = 0
    /\ status = "loaded"
    /\ last_key = ""
    /\ max_assigned = -1
    /\ prev = Snapshot
    /\ call = NoCall

StartSession ==
    /\ status = "loaded"
    /\ Becomes(session_start(items, review, last_reviews, disk))
    /\ last_key' = "start"
    /\ UNCHANGED <<review, dry_run, no_auto_save, max_assigned, call>>

\* the order the store holds for the term with the string word
AssignedOrder(its, word) == its[FirstWithWord(its, 1, word)].order

\* the key c makes the loop classify or postpone the head of the queue
Assigns(c) == c \in classifing_keys \cup {"p"} /\ to_classify # <<>>

\* the loop reads the key c
Key(c) ==
    /\ status = "running"
    /\ Becomes(loop_iteration(Cur, c, review, dry_run, no_auto_save))
    /\ last_key' = c
    /\ max_assigned' =
           IF Assigns(c) /\ AssignedOrder(items', to_classify[1]) > max_assigned
           THEN AssignedOrder(items', to_classify[1])
           ELSE max_assigned
    /\ UNCHANGED <<review, dry_run, no_auto_save, call>>

\* the classifying key the annotator presses: the other three take the
\* same path through the loop with another label
PressedKeys == {"k"}

\* classify and postpone stop at the bound on the orders
OrderBelowBound ==
    to_classify = <<>> \/ get_last_classified_order(items) < MaxOrder

Classify ==
    /\ OrderBelowBound
    /\ \E c \in PressedKeys \cap classifing_keys : Key(c)

Postpone ==
    /\ OrderBelowBound
    /\ Key("p")

\* undo stops at the bound on the queue
Undo ==
    /\ Len(to_classify) < MaxQueue
    /\ Key("u")

Write ==
    /\ status = "running"
    /\ Key("w")

Quit ==
    /\ status = "running"
    /\ Key("q")

\* a key the loop does not know
OtherKey ==
    /\ status = "running"
    /\ Key("z")

Next ==
    \/ StartSession
    \/ Classify
    \/ Postpone
    \/ Undo
    \/ Write
    \/ Quit
    \/ OtherKey

Spec == Init /\ [][Next]_vars

\* ------------------------------------------------------------------------
\* Sessions whose writes can fail
\* ------------------------------------------------------------------------

\* sessions on the files of the first vocabulary, reviewing KEYWORD
InitIO ==
    /\ Init
    /\ review = "KEYWORD"
    /\ \E i \in 1..Len(disk) : disk[i].keyword = neural_networks

\* a key whose to_csv raises OSError
WriteFails ==
    /\ status = "running"
    /\ \E c \in PressedKeys \cup {"p", "u", "w", "q"}, k \in FailPoints(items) :
           /\ writes(Cur, c, review, dry_run, no_auto_save)
           /\ Becomes(loop_iteration_write_fails(Cur, c, review, dry_run,
                                                 no_auto_save, k))
           /\ last_key' = c
           /\ call' = [fn |-> "to_csv", error |-> "OSError", written |-> k]
    /\ UNCHANGED <<review, dry_run, no_auto_save, max_assigned>>

NextIO ==
    \/ Next
    \/ WriteFails

SpecIO == InitIO /\ [][NextIO]_vars

\* ------------------------------------------------------------------------
\* Direct calls of the functions of words.py, on a loaded store
\* ------------------------------------------------------------------------

\* the strs word_contains is called on are at most this long
MaxStrLen == 4

\* the strs of at most n characters over the alphabet a and blank
RECURSIVE StrsUpTo(_)
StrsUpTo(n) ==
    IF n = 0 THEN {<<>>}
    ELSE LET shorter == StrsUpTo(n - 1)
         IN  shorter \cup {Append(t, ch) : t \in shorter, ch \in {"a", " "}}

TestStrs ==
    StrsUpTo(MaxStrLen)
        \cup {neural_networks, networks_topology, pipeline, pipe,
              data_science_pipeline}

\* mark_word has no raise statement: it returns self on every path
mark_word_error(its, word) == "none"

InitCalls ==
    /\ Init
    /\ review = "NONE"
    /\ last_reviews = Absent
    /\ ~dry_run /\ ~no_auto_save

CallWordContains ==
    /\ call.fn = "none"
    /\ \E string \in TestStrs, substring \in TestStrs :
           call' = [fn |-> "word_contains", string |-> string,
                    substring |-> substring,
                    result |-> word_contains(string, substring)]
    /\ UNCHANGED <<items, to_classify, sort_word_key, related_items_count,
                   review, last_reviews, dry_run, no_auto_save, disk, status,
                   last_key, max_assigned, prev>>

CallMarkWord ==
    /\ call.fn = "none"
    /\ \E word \in {items[i].word : i \in 1..Len(items)} \cup {unknown_term},
          marker \in {"NONE", "KEYWORD"}, order \in {-1, MaxOrder},
          related \in {EmptyStr, pipeline} :
           /\ items' = mark_word(items, word, marker, order, related)
           /\ call' = [fn |-> "mark_word", word |-> word, marker |-> marker,
                       order |-> order, related |-> related,
                       error |-> mark_word_error(items, word),
                       before |-> items]
    /\ UNCHANGED <<to_classify, sort_word_key, related_items_count,
                   review, last_reviews, dry_run, no_auto_save, disk, status,
                   last_key, max_assigned, prev>>

\* the rows of the files from_csv is called on: a label written by its
\* name, by its key, or a str that is neither
TestRows ==
    [keyword : {pipeline, pipe},
     group   : {LabelName("KEYWORD"), LabelKey("KEYWORD"), LabelName("NONE"),
                LabelName("NOISE"), LabelKey("NOISE"), "bogus"},
     order   : {EmptyStr, <<"0">>},
     related : {EmptyStr}]

TestFiles == {<<r>> : r \in TestRows} \cup {<<r, s>> : r \in TestRows, s \in TestRows}

CallFromCsv ==
    /\ call.fn = "none"
    /\ \E rows \in TestFiles :
           /\ items' = from_csv_into(items, rows)
           /\ call' = [fn |-> "from_csv", rows |-> rows,
                       error |-> from_csv_error(rows), before |-> items]
    /\ UNCHANGED <<to_classify, sort_word_key, related_items_count,
                   review, last_reviews, dry_run, no_auto_save, disk, status,
                   last_key, max_assigned, prev>>

\* the strs the lookups of Label are called on: the keys, the names, and
\* strs that are neither
TestLookups ==
    {LabelKey(l) : l \in Label} \cup {LabelName(l) : l \in Label}
        \cup {"z", "K", "bogus"}

CallGetFromKey ==
    /\ call.fn = "none"
    /\ \E key \in TestLookups :
           call' = [fn |-> "get_from_key", value |-> key,
                    result |-> get_from_key(key)]
    /\ UNCHANGED <<items, to_classify, sort_word_key, related_items_count,
                   review, last_reviews, dry_run, no_auto_save, disk, status,
                   last_key, max_assigned, prev>>

CallGetFromName ==
    /\ call.fn = "none"
    /\ \E name \in TestLookups :
           call' = [fn |-> "get_from_name", value |-> name,
                    result |-> get_from_name(name)]
    /\ UNCHANGED <<items, to_classify, sort_word_key, related_items_count,
                   review, last_reviews, dry_run, no_auto_save, disk, status,
                   last_key, max_assigned, prev>>

\* undo called on the store with a queue of its terms, an anchor that is
\* empty, a term of the store or the anchor of the last classified Word, and
\* a count
CallUndo ==
    /\ call.fn = "none"
    /\ \E n \in 0..2, count \in 0..2,
          key \in {EmptyStr, items[1].word,
                   items[get_last_classified_word(items)].related} :
           LET queue == [i \in 1..n |-> items[i + 1].word]
               r == undo(items, queue, review, key, count)
           IN  /\ items' = r.items
               /\ to_classify' = r.to_classify
               /\ sort_word_key' = r.sort_word_key
               /\ related_items_count' = r.related_items_count
               /\ call' = [fn |-> "undo", queue |-> queue, key |-> key,
                           count |-> count, before |-> items,
                           last |-> get_last_classified_word(items),
                           related |->
                               undo_related(items, queue, review, key, count,
                                            get_last_classified_word(items))]
    /\ UNCHANGED <<review, last_reviews, dry_run, no_auto_save, disk, status,
                   last_key, max_assigned, prev>>

\* the token the first and the third term of the first vocabulary share
networks == SubSeq(networks_topology, 1, 8)

\* the anchors the direct calls pass: the empty one, whole terms and tokens
TestKeys == {EmptyStr, neural_networks, networks, pipeline, pipe}

\* classify called on a term of the store, with an anchor and a count
CallClassify ==
    /\ call.fn = "none"
    /\ \E i \in 1..Len(items), label \in {"KEYWORD", "NOISE"},
          key \in TestKeys, count \in 0..2 :
           LET r == classify(label, items, review, items[i].word, key, count)
           IN  /\ items' = r.items
               /\ to_classify' = r.to_classify
               /\ sort_word_key' = r.sort_word_key
               /\ related_items_count' = r.related_items_count
               /\ call' = [fn |-> "classify", label |-> label,
                           evaluated_term |-> items[i].word, key |-> key,
                           count |-> count, before |-> items]
    /\ UNCHANGED <<review, last_reviews, dry_run, no_auto_save, disk, status,
                   last_key, max_assigned, prev>>

\* return_related_items called on the store with an anchor and a label
CallReturnRelatedItems ==
    /\ call.fn = "none"
    /\ \E key \in TestKeys, label \in {"NONE", "KEYWORD"} :
           call' = [fn |-> "return_related_items", key |-> key,
                    label |-> label,
                    result |-> return_related_items(items, key, label)]
    /\ UNCHANGED <<items, to_classify, sort_word_key, related_items_count,
                   review, last_reviews, dry_run, no_auto_save, disk, status,
                   last_key, max_assigned, prev>>

NextCalls ==
    \/ CallUndo
    \/ CallClassify
    \/ CallReturnRelatedItems
    \/ CallWordContains
    \/ CallMarkWord
    \/ CallFromCsv
    \/ CallGetFromKey
    \/ CallGetFromName

SpecCalls == InitCalls /\ [][NextCalls]_vars

\* ------------------------------------------------------------------------
\* Properties
\* ------------------------------------------------------------------------

\* the strings of the classified terms: the terms that have an order
ClassifiedTerms(its) == {its[i].word : i \in {j \in 1..Len(its) : its[j].order >= 0}}

\* the session after the key c, from the session st
AfterKey(st, c) == loop_iteration(st, c, review, dry_run, no_auto_save)

\* the session after the key c, from the session the variables hold
After(c) == AfterKey(Cur, c)

\* the last step classified or postponed the head of a non-empty queue
JustAssigned ==
    /\ status = "running"
    /\ last_key \in classifing_keys \cup {"p"}
    /\ prev.session.status = "running"
    /\ prev.session.to_classify # <<>>

\* the last step classified (with a label key) the head of a non-empty queue
JustClassified == JustAssigned /\ last_key \in classifing_keys

\* the term the last step acted on
ActedOn == prev.session.to_classify[1]

\* C1: undo inverts classify.  From every session with a non-empty queue
\* and for every label key, classifying the head term T and undoing at once
\* leaves T with the review label and order -1, every other term as it was,
\* and the set of classified terms as it was before T was classified.
C1_UndoInvertsClassify ==
    (status = "running" /\ to_classify # <<>>) =>
        \A c \in classifing_keys :
            LET T == to_classify[1]
                after == AfterKey(After(c), "u").items
            IN  /\ Len(after) = Len(items)
                /\ \A i \in 1..Len(items) :
                       IF items[i].word = T
                       THEN /\ after[i].word = T
                            /\ after[i].group = review
                            /\ after[i].order = -1
                       ELSE after[i] = items[i]
                /\ ClassifiedTerms(after) = ClassifiedTerms(items)

\* the orders of the classified terms are pairwise distinct
DistinctOrders(its) ==
    \A i, j \in 1..Len(its) :
        (i # j /\ its[i].order >= 0) => its[i].order # its[j].order

\* C2: order uniqueness.  From a loaded store with distinct orders, no two
\* terms hold the same non-negative order in any state the session reaches.
C2_OrderUniqueness == DistinctOrders(items)

\* a classify or postpone has just given an order while another term holds one
C2_Witness ==
    /\ JustAssigned
    /\ AssignedOrder(items, ActedOn) >= 1
    /\ Cardinality(ClassifiedTerms(items)) >= 2

\* C3, as claimed: each classify or postpone assigns an order strictly
\* greater than every order an earlier classify or postpone of the session
\* assigned.
C3_AboveEveryAssignedOrder ==
    JustAssigned => AssignedOrder(items, ActedOn) > prev.max_assigned

\* C3, amended: each classify or postpone assigns an order strictly greater
\* than every order a term of the store holds when it acts (an order that an
\* undo took back is assigned again).
C3_AboveEveryHeldOrder ==
    JustAssigned =>
        \A i \in 1..Len(prev.session.items) :
            AssignedOrder(items, ActedOn) > prev.session.items[i].order

\* a classify or postpone acted on a store that held orders, after an
\* earlier classify or postpone of the session
C3_Witness ==
    /\ JustAssigned
    /\ prev.max_assigned >= 0
    /\ ClassifiedTerms(prev.session.items) # {}

\* C4: an undo with no classified term changes neither the terms nor the
\* queue nor sort_word_key nor related_items_count, and raises nothing.
C4_UndoWithoutHistoryIsNoOp ==
    (status = "running" /\ ClassifiedTerms(items) = {}) =>
        LET u == After("u")
        IN  /\ u.status = "running"
            /\ u.items = items
            /\ u.to_classify = to_classify
            /\ u.sort_word_key = sort_word_key
            /\ u.related_items_count = related_items_count

\* C5: a label key or the postpone key read while the queue is empty changes
\* nothing, and the session keeps running.
C5_EmptyQueueIsNoOp ==
    (status = "running" /\ to_classify = <<>>) =>
        \A c \in classifing_keys \cup {"p"} :
            LET r == After(c)
            IN  /\ r.status = "running"
                /\ r.items = items
                /\ r.to_classify = to_classify
                /\ r.sort_word_key = sort_word_key
                /\ r.related_items_count = related_items_count

\* the store of the scenario: the three terms, none labelled or classified
ScenarioStore ==
    <<Word(neural_networks, "NONE", -1, EmptyStr),
      Word(deep_learning, "NONE", -1, EmptyStr),
      Word(networks_topology, "NONE", -1, EmptyStr)>>

\* C6: in the scenario, with no active group, classifying "neural networks"
\* as KEYWORD gives sort_word_key = "neural networks", containing =
\* ["networks topology"], not_containing = ["deep learning"],
\* related_items_count = 1 and the queue ["networks topology",
\* "deep learning"].
C6_ScenarioClassify ==
    (/\ status = "running"
     /\ review = "NONE"
     /\ items = ScenarioStore
     /\ to_classify # <<>>
     /\ to_classify[1] = neural_networks
     /\ related_items_count <= 0) =>
        LET r == After(LabelKey("KEYWORD"))
            part == return_related_items(r.items, r.sort_word_key, review)
        IN  /\ r.sort_word_key = neural_networks
            /\ part.containing = <<networks_topology>>
            /\ part.not_containing = <<deep_learning>>
            /\ r.related_items_count = 1
            /\ r.to_classify = <<networks_topology, deep_learning>>

\* C7: in the state right after that classification, undo finds the seed's
\* stored related equal to sort_word_key, gives the seed the review label
\* and order -1, pushes it to the front of the queue, leaves sort_word_key
\* as it is and takes related_items_count from 1 to 2.
C7_ScenarioUndo ==
    (/\ JustClassified
     /\ last_key = LabelKey("KEYWORD")
     /\ review = "NONE"
     /\ prev.session.items = ScenarioStore
     /\ ActedOn = neural_networks
     /\ prev.session.related_items_count <= 0) =>
        LET u == After("u")
        IN  /\ items[1].related = sort_word_key
            /\ u.items[1].group = review
            /\ u.items[1].order = -1
            /\ u.to_classify = <<neural_networks>> \o to_classify
            /\ u.sort_word_key = sort_word_key
            /\ related_items_count = 1
            /\ u.related_items_count = 2

\* key is one of the maximal runs of non-blank characters of term
IsToken(term, key) ==
    /\ key # <<>>
    /\ \A k \in 1..Len(key) : key[k] # " "
    /\ \E a \in 1..Len(term) :
           /\ a + Len(key) - 1 <= Len(term)
           /\ SubSeq(term, a, a + Len(key) - 1) = key
           /\ (a = 1 \/ term[a - 1] = " ")
           /\ (a + Len(key) - 1 = Len(term) \/ term[a + Len(key)] = " ")

Eligible(its, rev) ==
    {its[i].word : i \in {j \in 1..Len(its) :
                              its[j].group = rev /\ its[j].order = -1}}

SharesToken(s, t) ==
    \E i \in 1..Len(Split(s)) : word_contains(t, Split(s)[i])

\* C9: group closure.  With related_items_count = 0, classifying a term
\* that shares no token with any other eligible term leaves
\* related_items_count = 0.
C9_GroupClosure ==
    (/\ JustClassified
     /\ prev.session.related_items_count = 0
     /\ \A t \in Eligible(prev.session.items, review) \ {ActedOn} :
            ~SharesToken(ActedOn, t)) =>
        related_items_count = 0

\* such a term was classified while other terms were eligible
C9_Witness ==
    /\ JustClassified
    /\ prev.session.related_items_count = 0
    /\ Eligible(prev.session.items, review) \ {ActedOn} # {}
    /\ \A t \in Eligible(prev.session.items, review) \ {ActedOn} :
           ~SharesToken(ActedOn, t)
    /\ related_items_count = 0

\* C10: mark_word on a string that is in no Word of the store fails with an
\* error, and the store is as it was.
C10_UnknownTermFails ==
    (/\ call.fn = "mark_word"
     /\ \A i \in 1..Len(call.before) : call.before[i].word # call.word) =>
        /\ call.error # "none"
        /\ items = call.before

\* C11: get_last_classified_word returns the one term whose order is the
\* maximum of the orders >= 0, and None when no term has an order >= 0; it
\* never returns a term whose order is -1.
C11_LastClassified ==
    LET last == get_last_classified_word(items)
    IN  IF ClassifiedTerms(items) = {}
        THEN last = 0
        ELSE /\ last # 0
             /\ items[last].order >= 0
             /\ \A i \in 1..Len(items) :
                    i # last => items[i].order < items[last].order

\* C12: from_csv fails, and builds no store, when two rows of the file carry
\* the same term string.
C12_DuplicateStringFails ==
    (/\ call.fn = "from_csv"
     /\ \E i, j \in 1..Len(call.rows) :
            i # j /\ call.rows[i].keyword = call.rows[j].keyword) =>
        /\ call.error # "none"
        /\ items = call.before

\* the str g is the name or the key of a Label
Resolves(g) == \E l \in Label : LabelName(l) = g \/ LabelKey(l) = g

\* the Label a group field stands for: the Label with that name or, when no
\* Label has that name, the Label with that key
LabelOf(g) ==
    IF \E l \in Label : LabelName(l) = g
    THEN CHOOSE l \in Label : LabelName(l) = g
    ELSE CHOOSE l \in Label : LabelKey(l) = g

\* a row whose group field is g
RowWithGroup(g) ==
    [keyword |-> pipeline, group |-> g, order |-> EmptyStr, related |-> EmptyStr]

OpenedInReview == last_key = "start" /\ review # "NONE"

\* last_review.json records the label under review for the data file
SameReview == prev.session.last_reviews = LabelName(review)

\* C14: a session opened in review mode for a label that is not the one
\* recorded for the data file starts with every term at order -1 and related
\* '', with no undo target, an empty anchor and related_items_count = 0; when
\* the recorded label is the one under review, no order or related is changed.
C14_ReviewModeReset ==
    OpenedInReview =>
        IF ~SameReview
        THEN /\ \A i \in 1..Len(items) :
                    items[i].order = -1 /\ items[i].related = EmptyStr
             /\ get_last_classified_word(items) = 0
             /\ sort_word_key = EmptyStr
             /\ related_items_count = 0
        ELSE /\ Len(items) = Len(prev.session.items)
             /\ \A i \in 1..Len(items) :
                    /\ items[i].order = prev.session.items[i].order
                    /\ items[i].related = prev.session.items[i].related

\* the last step was a key whose to_csv raised
WriteFailed == call.fn = "to_csv" /\ call.error # "none"

\* the session after the key c, from the session st, before any to_csv
Unsaved(st, c) == loop_iteration(st, c, review, TRUE, TRUE)

\* C15: a write is all or nothing.  After a write that failed, whether of
\* 'w', of the auto-save or of the save at exit, the data file holds what it
\* held before, and the terms in memory are what the key made them.
C15_WriteAllOrNothing ==
    WriteFailed =>
        /\ disk = prev.session.disk
        /\ items = Unsaved(prev.session, last_key).items

\* C16: an auto-save that fails after a classify, a postpone or an undo does
\* not end the loop: the session is running, with the result of the action
\* in memory.
C16_AutoSaveFailureKeepsSession ==
    (WriteFailed /\ last_key \in classifing_keys \cup {"p", "u"}) =>
        /\ status = "running"
        /\ items = Unsaved(prev.session, last_key).items
        /\ to_classify = Unsaved(prev.session, last_key).to_classify

C19_UndoSameGroup ==
    (/\ call.fn = "undo"
     /\ call.before[call.last].related = call.key) =>
        /\ call.related.to_classify = <<call.before[call.last].word>> \o call.queue
        /\ call.related.sort_word_key = call.key
        /\ call.related.related_items_count = call.count + 1
        /\ to_classify = <<call.before[call.last].word>> \o call.queue
        /\ sort_word_key = call.key
        /\ related_items_count =
               IF call.key = EmptyStr THEN 0 ELSE call.count + 1

\* undo took the branch in a group with an anchor, a count and a queue
C19_Witness ==
    /\ call.fn = "undo"
    /\ call.key # EmptyStr
    /\ call.before[call.last].related = call.key
    /\ call.count >= 1
    /\ Len(call.queue) = 2
    /\ related_items_count = call.count + 1

\* the strings of the eligible terms of its (review label, no order), in
\* load order
EligibleSeq(its, rev) ==
    LET IsEligible(w) == w.group = rev /\ w.order = -1
        ws == SelectSeq(its, IsEligible)
    IN  [i \in 1..Len(ws) |-> ws[i].word]

\* C20: undo, closed-group branch.  When the related the undone term holds
\* is not the current sort_word_key, sort_word_key becomes that related, the
\* queue becomes containing ++ not_containing of the eligible terms, the
\* undone term among them, for that anchor, and related_items_count becomes
\* len(containing).
C20_UndoClosedGroup ==
    (status = "running" /\ last_key = "u" /\ prev.session.status = "running") =>
        LET before == prev.session.items
            last == get_last_classified_word(before)
            key0 == IF prev.session.related_items_count <= 0 THEN EmptyStr
                    ELSE prev.session.sort_word_key
            related == before[last].related
            Contains(w) == IsToken(w, related)
            NotContains(w) == ~IsToken(w, related)
            containing == SelectSeq(EligibleSeq(items, review), Contains)
            not_containing == SelectSeq(EligibleSeq(items, review), NotContains)
        IN  (last # 0 /\ related # key0) =>
                /\ sort_word_key = related
                /\ to_classify = containing \o not_containing
                /\ \E i \in 1..Len(to_classify) :
                       to_classify[i] = before[last].word
                /\ related_items_count = Len(containing)

\* C21: a classify performed with no active group (related_items_count <= 0)
\* stores the term that seeds the group with related equal to its own
\* string, which is the new sort_word_key.
C21_SeedStoredWithOwnString ==
    (JustClassified /\ prev.session.related_items_count <= 0) =>
        /\ sort_word_key = ActedOn
        /\ items[FirstWithWord(items, 1, ActedOn)].related = ActedOn

\* C22: in every state a session reaches by classify, postpone and undo
\* actions, an empty sort_word_key implies that no group is active:
\* sort_word_key = '' implies related_items_count <= 0, and an undo that
\* leaves sort_word_key = '' leaves related_items_count = 0.
C22_EmptyKeyNoGroup ==
    /\ sort_word_key = EmptyStr => related_items_count <= 0
    /\ (status = "running" /\ last_key = "u" /\ sort_word_key = EmptyStr) =>
           related_items_count = 0

\* an undo took a term back into the group of the empty anchor: its count
\* of related terms was above 0 before the final correction
C22_Witness ==
    /\ status = "running"
    /\ last_key = "u"
    /\ sort_word_key = EmptyStr
    /\ related_items_count = 0
    /\ prev.session.status = "running"
    /\ LET before == prev.session
           key0 == IF before.related_items_count <= 0 THEN EmptyStr
                   ELSE before.sort_word_key
           last == get_last_classified_word(before.items)
       IN  /\ before.items[last].order >= 0
           /\ undo_related(before.items, before.to_classify, review, key0,
                           before.related_items_count,
                           last).related_items_count > 0

\* C23: a classify performed while a group is active (related_items_count
\* > 0) leaves sort_word_key unchanged, stores the classified term with
\* related equal to sort_word_key, and decreases related_items_count by
\* exactly 1.
C23_ClassifyInActiveGroup ==
    (call.fn = "classify" /\ call.count > 0) =>
        /\ sort_word_key = call.key
        /\ items[FirstWithWord(items, 1, call.evaluated_term)].related
               = call.key
        /\ related_items_count = call.count - 1

\* classify was called with a count above 0 and an anchor that is not the
\* classified term, on a term that carried another anchor
C23_Witness ==
    /\ call.fn = "classify"
    /\ call.count > 0
    /\ call.key # EmptyStr
    /\ call.key # call.evaluated_term
    /\ items # call.before

\* C24: postponing the head term does the same bookkeeping as classifying
\* it with the label POSTPONED.  From every state of a session with a
\* non-empty queue both leave the same store (the term has the same label,
\* order and related) and the same sort_word_key and related_items_count;
\* the queues are the same while the count stays above 0, and otherwise the
\* queue of the postpone is the eligible terms in load order.
C24_PostponeIsClassifyPostponed ==
    (status = "running" /\ to_classify # <<>>) =>
        LET key0 == IF related_items_count <= 0 THEN EmptyStr
                    ELSE sort_word_key
            c == do_classify(items, to_classify[1], "POSTPONED", review,
                             key0, related_items_count)
            p == After("p")
        IN  /\ p.items = c.items
            /\ p.sort_word_key = c.sort_word_key
            /\ p.related_items_count = c.related_items_count
            /\ IF p.related_items_count > 0
               THEN p.to_classify = c.to_classify
               ELSE p.to_classify = EligibleSeq(p.items, review)

\* the eligible terms of its for the label (that label, order -1) whose
\* belonging to the anchor key is `member`, in load order
EligibleWith(its, label, key, member) ==
    LET Chosen(w) == /\ w.group = label
                     /\ w.order = -1
                     /\ word_contains(w.word, key) = member
        ws == SelectSeq(its, Chosen)
    IN  [i \in 1..Len(ws) |-> ws[i].word]

\* C25: return_related_items(key, label) considers exactly the terms that
\* carry the label and are unclassified (order -1): each of them is once in
\* containing if it contains key as a token and once in not_containing
\* otherwise, each list in the load order of the store; classified terms and
\* terms with another label are in neither list.
C25_Partition ==
    call.fn = "return_related_items" =>
        /\ call.result.containing
               = EligibleWith(items, call.label, call.key, TRUE)
        /\ call.result.not_containing
               = EligibleWith(items, call.label, call.key, FALSE)

\* the strings the queue holds
InQueue(queue) == {queue[i] : i \in 1..Len(queue)}

C27_RelatedSurfacedFirst ==
    /\ (status = "running" /\ related_items_count > 0) =>
           /\ related_items_count <= Len(to_classify)
           /\ \A i \in 1..related_items_count :
                  IsToken(to_classify[i], sort_word_key)
    /\ (JustClassified /\ related_items_count <= 0) =>
           \A t \in Eligible(items, review) : ~IsToken(t, sort_word_key)

\* the last step was a classify, a postpone or an undo of a running session
JustActed ==
    /\ last_key \in classifing_keys \cup {"p", "u"}
    /\ prev.session.status = "running"

C29_QueueInvariant ==
    status = "running" =>
        /\ InQueue(to_classify) = Eligible(items, review)
        /\ \A i, j \in 1..Len(to_classify) :
               i # j => to_classify[i] # to_classify[j]

\* the session after the keys of ks, read one after the other from st
RECURSIVE AfterKeys(_, _)
AfterKeys(st, ks) ==
    IF ks = <<>> THEN st ELSE AfterKeys(AfterKey(st, Head(ks)), Tail(ks))

\* each key of ks finds a running session with a term at the head of the
\* queue
RECURSIVE Presented(_, _)
Presented(st, ks) ==
    \/ ks = <<>>
    \/ /\ st.status = "running"
       /\ st.to_classify # <<>>
       /\ Presented(AfterKey(st, Head(ks)), Tail(ks))

\* the classify and postpone actions unwound: one or two of them
Actions ==
    LET keys == PressedKeys \cup {"p"}
    IN  {<<a>> : a \in keys} \cup {<<a, b>> : a \in keys, b \in keys}

\* C30: full unwinding.  From a session with no classified term, after any
\* k classify or postpone actions, k consecutive undos return every term to
\* its initial label, order -1 and related '', return the queue to its
\* initial content and order with sort_word_key = '' and
\* related_items_count = 0, and the (k+1)-th undo changes nothing.
C30_FullUnwinding ==
    (status = "running" /\ ClassifiedTerms(items) = {}) =>
        \A ks \in Actions :
            Presented(Cur, ks) =>
                LET undos == [i \in 1..Len(ks) |-> "u"]
                    unwound == AfterKeys(AfterKeys(Cur, ks), undos)
                    again == AfterKey(unwound, "u")
                IN  /\ unwound.items = items
                    /\ unwound.to_classify = to_classify
                    /\ unwound.sort_word_key = EmptyStr
                    /\ unwound.related_items_count = 0
                    /\ again.items = unwound.items
                    /\ again.to_classify = unwound.to_classify
                    /\ again.sort_word_key = unwound.sort_word_key
                    /\ again.related_items_count = unwound.related_items_count

\* the last step was an undo on a store with a classified term
JustReverted ==
    /\ status = "running"
    /\ last_key = "u"
    /\ prev.session.status = "running"
    /\ ClassifiedTerms(prev.session.items) # {}

\* the term the undo reverted: the last classified one
Reverted ==
    prev.session.items[get_last_classified_word(prev.session.items)].word

\* C31: immediately after every undo that reverted a term, that term is the
\* head of the queue, in the same-group branch and in the closed-group
\* branch alike.
C31_RevertedTermIsHead ==
    JustReverted =>
        /\ to_classify # <<>>
        /\ to_classify[1] = Reverted

\* C32: related_items_count is never negative in any state a session
\* reaches by classify, postpone and undo actions, in particular after a
\* postpone performed while no group is active.
C32_CountNeverNegative == related_items_count >= 0

\* C33: progress.  Every classify or postpone on a non-empty queue removes
\* the acted-on term from the queue and shortens the queue by exactly one,
\* for every review label.
C33_QueueShortensByOne ==
    JustAssigned =>
        /\ ActedOn \notin InQueue(to_classify)
        /\ Len(to_classify) = Len(prev.session.to_classify) - 1

\* the session that main and curses_main build when the program is run
\* again on the data file, with the same review label
Reopened == session_start(from_csv(disk), review, last_reviews, disk)

\* the anchor the loop works with: '' when no group is active
Anchor(st) ==
    IF st.related_items_count <= 0 THEN EmptyStr ELSE st.sort_word_key

\* C34: resume round trip.  Closing a session after any sequence of
\* classify, postpone and undo actions and reopening it on the saved store
\* with the same review label rebuilds the queue, the anchor and the group
\* status (related_items_count > 0 or not, and its value when positive) the
\* session had when it was closed.
C34_ResumeRoundTrip ==
    (status = "quit" /\ ~dry_run) =>
        /\ Reopened.to_classify = to_classify
        /\ Anchor(Reopened) = Anchor(Cur)
        /\ (Reopened.related_items_count > 0) = (related_items_count > 0)
        /\ related_items_count > 0 =>
               Reopened.related_items_count = related_items_count

\* C35: label/order consistency.  In a session without a review label, in
\* every state from session start onward a term has the label NONE iff its
\* order is -1, so count_classified() equals the number of terms with an
\* order >= 0; sessions started on a data file with a recorded last review
\* are among them.
C35_LabelOrderConsistency ==
    (review = "NONE" /\ status # "loaded") =>
        /\ \A i \in 1..Len(items) :
               (items[i].group = "NONE") <=> (items[i].order = -1)
        /\ count_classified(items) = Cardinality(ClassifiedTerms(items))

\* a term of its has the label NONE iff its order is -1
Consistent(its) ==
    \A i \in 1..Len(its) : (its[i].group = "NONE") <=> (its[i].order = -1)

\* C35, amended: in a session without a review label every key keeps the
\* label/order consistency: when a term has the label NONE iff its order is
\* -1 before the key, the same holds after it, and count_classified() equals
\* the number of terms with an order >= 0.
C35_KeysKeepConsistency ==
    (/\ review = "NONE"
     /\ status # "loaded"
     /\ last_key # "start"
     /\ Consistent(prev.session.items)) =>
        /\ Consistent(items)
        /\ count_classified(items) = Cardinality(ClassifiedTerms(items))

\* an undo took a classification back, in a session without a review label
\* whose store was consistent and keeps a classified term
C35_Witness ==
    /\ review = "NONE"
    /\ JustReverted
    /\ prev.key \in classifing_keys
    /\ Consistent(prev.session.items)
    /\ items # prev.session.items
    /\ ClassifiedTerms(items) # {}

\* C36: in a session started with --dry-run no action (classify, postpone,
\* undo, save, quit) writes the term store: after every step the data file
\* is as it was before the step, hence as it was before the session.
C36_DryRunWritesNothing ==
    dry_run => disk = prev.session.disk

====
